---- MODULE Spec2Model ----
(***************************************************************************)
(* Output normalizer of server/vision_server.py: the text decoded from the *)
(* vision model is turned into {chartType, confidence, hasGrid} by         *)
(* parse_json_from_text, then map_text_to_label, then the abstention of    *)
(* classify.                                                               *)
(*                                                                         *)
(* A text is a sequence of lexical tokens [k, s]: k is the kind ("lbrace", *)
(* "rbrace", "colon", "comma", "ws", "str", "num", "lit", "word") and s    *)
(* the characters of the token (for "str" without its quotes).  Brace      *)
(* characters occur only as brace tokens.  Numbers are held in hundredths  *)
(* (0.55 is 55).  Python values are records tagged by t.                   *)
(***************************************************************************)
EXTENDS Integers, Sequences, FiniteSets, TLC

VARIABLES allowed, text, pc, parsed, mapped, response, trace, nresp, round, prev

vars == <<allowed, text, pc, parsed, mapped, response, trace, nresp, round, prev>>

(* ---------------- bounds ---------------- *)

\* fragments in a free-form input text
MaxFrags == 3

\* times a response is serialized and fed back as the next text
MaxRounds == 1

\* concurrent requests of SpecConc
NumReqs == 2

(* ---------------- constants of the program ---------------- *)

ALLOWED == {"line", "area", "bar", "bar-horizontal", "scatter", "circle", "pie", "donut"}

\* name of the token standing for an integer literal beyond the float range
\* (a 1 followed by 400 zeros)
BigIntLit == "10**400"

None == [none |-> TRUE]

(* ---------------- characters ---------------- *)

Chars(s) ==
  CASE s = "{" -> <<"{">>
    [] s = "}" -> <<"}">>
    [] s = ":" -> <<":">>
    [] s = "," -> <<",">>
    [] s = " " -> <<" ">>
    [] s = "" -> <<>>
    [] s = "chartType" -> <<"c", "h", "a", "r", "t", "T", "y", "p", "e">>
    [] s = "confidence" -> <<"c", "o", "n", "f", "i", "d", "e", "n", "c", "e">>
    [] s = "hasGrid" -> <<"h", "a", "s", "G", "r", "i", "d">>
    [] s = "note" -> <<"n", "o", "t", "e">>
    [] s = "PIE" -> <<"P", "I", "E">>
    [] s = " Donut " -> <<" ", "D", "o", "n", "u", "t", " ">>
    [] s = "triangle" -> <<"t", "r", "i", "a", "n", "g", "l", "e">>
    [] s = "high" -> <<"h", "i", "g", "h">>
    [] s = "0.7" -> <<"0", ".", "7">>
    [] s = "true" -> <<"t", "r", "u", "e">>
    [] s = "line" -> <<"l", "i", "n", "e">>
    [] s = "area" -> <<"a", "r", "e", "a">>
    [] s = "bar" -> <<"b", "a", "r">>
    [] s = "bar-horizontal" -> <<"b", "a", "r", "-", "h", "o", "r", "i", "z", "o", "n", "t", "a", "l">>
    [] s = "scatter" -> <<"s", "c", "a", "t", "t", "e", "r">>
    [] s = "circle" -> <<"c", "i", "r", "c", "l", "e">>
    [] s = "pie" -> <<"p", "i", "e">>
    [] s = "donut" -> <<"d", "o", "n", "u", "t">>
    [] s = "1.4" -> <<"1", ".", "4">>
    [] s = "0.9" -> <<"0", ".", "9">>
    [] s = "-0.3" -> <<"-", "0", ".", "3">>
    [] s = "1" -> <<"1">>
    [] s = "0.55" -> <<"0", ".", "5", "5">>
    [] s = "0.5" -> <<"0", ".", "5">>
    [] s = "0.0" -> <<"0", ".", "0">>
    [] s = "1.0" -> <<"1", ".", "0">>
    [] s = "1e400" -> <<"1", "e", "4", "0", "0">>
    [] s = "false" -> <<"f", "a", "l", "s", "e">>
    [] s = "null" -> <<"n", "u", "l", "l">>
    [] s = "NaN" -> <<"N", "a", "N">>
    [] s = "Infinity" -> <<"I", "n", "f", "i", "n", "i", "t", "y">>
    [] s = "-Infinity" -> <<"-", "I", "n", "f", "i", "n", "i", "t", "y">>
    [] s = "None" -> <<"N", "o", "n", "e">>
    [] s = "True" -> <<"T", "r", "u", "e">>
    [] s = "False" -> <<"F", "a", "l", "s", "e">>
    [] s = "nan" -> <<"n", "a", "n">>
    [] s = "inf" -> <<"i", "n", "f">>
    [] s = "-inf" -> <<"-", "i", "n", "f">>
    [] s = "{...}" -> <<"{", ".", ".", ".", "}">>
    [] s = "This looks like a horizontal bar chart with gridlines" -> <<"T", "h", "i", "s", " ", "l", "o", "o", "k", "s", " ", "l", "i", "k", "e", " ", "a", " ", "h", "o", "r", "i", "z", "o", "n", "t", "a", "l", " ", "b", "a", "r", " ", "c", "h", "a", "r", "t", " ", "w", "i", "t", "h", " ", "g", "r", "i", "d", "l", "i", "n", "e", "s">>
    [] s = "I cannot determine the chart type" -> <<"I", " ", "c", "a", "n", "n", "o", "t", " ", "d", "e", "t", "e", "r", "m", "i", "n", "e", " ", "t", "h", "e", " ", "c", "h", "a", "r", "t", " ", "t", "y", "p", "e">>
    [] s = "Doughnut" -> <<"D", "o", "u", "g", "h", "n", "u", "t">>
    [] s = "Bar" -> <<"B", "a", "r">>
    [] s = "do" -> <<"d", "o">>
    [] s = "nut" -> <<"n", "u", "t">>
    [] s = "a timeline of points" -> <<"a", " ", "t", "i", "m", "e", "l", "i", "n", "e", " ", "o", "f", " ", "p", "o", "i", "n", "t", "s">>
    [] s = "Here is the JSON: " -> <<"H", "e", "r", "e", " ", "i", "s", " ", "t", "h", "e", " ", "J", "S", "O", "N", ":", " ">>
    [] s = "doughnut" -> <<"d", "o", "u", "g", "h", "n", "u", "t">>
    [] s = "horizontal" -> <<"h", "o", "r", "i", "z", "o", "n", "t", "a", "l">>
    [] s = "points" -> <<"p", "o", "i", "n", "t", "s">>
    [] s = "dots" -> <<"d", "o", "t", "s">>
    [] s = "time" -> <<"t", "i", "m", "e">>
    [] s = BigIntLit -> <<"1", "0", "0", "0">>
lower_char(c) ==
  CASE c = "B" -> "b"
    [] c = "D" -> "d"
    [] c = "E" -> "e"
    [] c = "F" -> "f"
    [] c = "G" -> "g"
    [] c = "H" -> "h"
    [] c = "I" -> "i"
    [] c = "J" -> "j"
    [] c = "N" -> "n"
    [] c = "O" -> "o"
    [] c = "P" -> "p"
    [] c = "S" -> "s"
    [] c = "T" -> "t"
    [] OTHER -> c

\* str.lower()
MapLower(cs) == [i \in 1..Len(cs) |-> lower_char(cs[i])]

IsSpace(c) == c = " "

RECURSIVE LStrip(_)
LStrip(cs) == IF cs # <<>> /\ IsSpace(Head(cs)) THEN LStrip(Tail(cs)) ELSE cs

RECURSIVE RStrip(_)
RStrip(cs) ==
  IF cs # <<>> /\ IsSpace(cs[Len(cs)]) THEN RStrip(SubSeq(cs, 1, Len(cs) - 1)) ELSE cs

Strip(cs) == RStrip(LStrip(cs))

\* Python's `kw in t` on strings
Contains(t, kw) ==
  \E i \in 1..(Len(t) - Len(kw) + 1) : SubSeq(t, i, i + Len(kw) - 1) = kw

(* ---------------- tokens and texts ---------------- *)

Tok(k, s) == [k |-> k, s |-> s]

LB == Tok("lbrace", "{")
RB == Tok("rbrace", "}")
COLON == Tok("colon", ":")
COMMA == Tok("comma", ",")
WS == Tok("ws", " ")
Str(s) == Tok("str", s)
Num(s) == Tok("num", s)
Lit(s) == Tok("lit", s)
Word(s) == Tok("word", s)

\* the characters a token contributes to the text
TokChars(tok) ==
  IF tok.k = "str" THEN <<"\"">> \o Chars(tok.s) \o <<"\"">> ELSE Chars(tok.s)

RECURSIVE TextChars(_)
TextChars(toks) ==
  IF toks = <<>> THEN <<>> ELSE TokChars(Head(toks)) \o TextChars(Tail(toks))

RECURSIVE Flatten(_)
Flatten(ss) == IF ss = <<>> THEN <<>> ELSE Head(ss) \o Flatten(Tail(ss))

(* ---------------- Python values ---------------- *)

PyStr(s) == [t |-> "str", s |-> s]
PyInt(n) == [t |-> "int", n |-> n]
PyBigInt == [t |-> "bigint"]
PyFloat(f) == [t |-> "float", f |-> f]
PyNaN == [t |-> "nan"]
PyInf == [t |-> "inf"]
PyNegInf == [t |-> "ninf"]
PyBool(b) == [t |-> "bool", b |-> b]
PyNone == [t |-> "none"]
PyDict(items) == [t |-> "dict", items |-> items]

\* value of a JSON number token (json's int() / float() on the literal)
NumLit(s) ==
  CASE s = "1.4" -> PyFloat(140)
    [] s = "0.9" -> PyFloat(90)
    [] s = "-0.3" -> PyFloat(-30)
    [] s = "0.55" -> PyFloat(55)
    [] s = "0.5" -> PyFloat(50)
    [] s = "0.0" -> PyFloat(0)
    [] s = "1.0" -> PyFloat(100)
    [] s = "0.7" -> PyFloat(70)
    [] s = "1e400" -> PyInf
    [] s = "1" -> PyInt(1)
    [] s = BigIntLit -> PyBigInt

\* value of a JSON constant token; json.loads accepts NaN and the infinities
LitVal(s) ==
  CASE s = "true" -> PyBool(TRUE)
    [] s = "false" -> PyBool(FALSE)
    [] s = "null" -> PyNone
    [] s = "NaN" -> PyNaN
    [] s = "Infinity" -> PyInf
    [] s = "-Infinity" -> PyNegInf

\* float.__repr__ of the finite floats a response can carry
FloatRepr(f) ==
  CASE f = 0 -> "0.0"
    [] f = 50 -> "0.5"
    [] f = 55 -> "0.55"
    [] f = 70 -> "0.7"
    [] f = 90 -> "0.9"
    [] f = 100 -> "1.0"
    [] f = 140 -> "1.4"
    [] f = -30 -> "-0.3"

\* str(v), as characters
py_str(v) ==
  CASE v.t = "str" -> Chars(v.s)
    [] v.t = "none" -> Chars("None")
    [] v.t = "bool" -> IF v.b THEN Chars("True") ELSE Chars("False")
    [] v.t = "int" -> Chars("1")
    [] v.t = "bigint" -> Chars(BigIntLit)
    [] v.t = "float" -> Chars(FloatRepr(v.f))
    [] v.t = "nan" -> Chars("nan")
    [] v.t = "inf" -> Chars("inf")
    [] v.t = "ninf" -> Chars("-inf")
    [] v.t = "dict" -> Chars("{...}")

\* float(v): [exc, val]
py_float(v) ==
  CASE v.t \in {"float", "nan", "inf", "ninf"} -> [exc |-> "none", val |-> v]
    [] v.t = "int" -> [exc |-> "none", val |-> PyFloat(100 * v.n)]
    [] v.t = "bigint" -> [exc |-> "OverflowError", val |-> PyNone]
    [] v.t = "bool" -> [exc |-> "none", val |-> PyFloat(IF v.b THEN 100 ELSE 0)]
    [] v.t = "str" ->
         IF v.s = "0.7" THEN [exc |-> "none", val |-> PyFloat(70)]
         ELSE [exc |-> "ValueError", val |-> PyNone]
    [] v.t \in {"none", "dict"} -> [exc |-> "TypeError", val |-> PyNone]

\* a < b on floats; every comparison with NaN is false
FloatLt(a, b) ==
  CASE a.t = "nan" \/ b.t = "nan" -> FALSE
    [] a.t = "ninf" -> b.t # "ninf"
    [] b.t = "inf" -> a.t # "inf"
    [] a.t = "inf" \/ b.t = "ninf" -> FALSE
    [] OTHER -> a.f < b.f

\* min(a, b) and max(a, b) of two arguments: the first unless the second is
\* strictly smaller (larger)
py_min(a, b) == IF FloatLt(b, a) THEN b ELSE a
py_max(a, b) == IF FloatLt(a, b) THEN b ELSE a

\* the confidence taken as it comes
ClampNone(conf) == conf

\* min(1.0, conf): the lower bound forgotten
ClampUpperOnly(conf) == py_min(PyFloat(100), conf)

\* max(0.0, min(1.0, conf))
Clamp(conf) == py_max(PyFloat(0), py_min(PyFloat(100), conf))

(* ---------------- re.search(r"\{.*\}", text, re.S) ---------------- *)

\* r"\{.*?\}": the span ends at the first "}" after the first "{"
BraceSpanLazy(toks) ==
  LET opens == {i \in 1..Len(toks) : toks[i].k = "lbrace"}
  IN IF opens = {} THEN None
     ELSE LET first == CHOOSE i \in opens : \A j \in opens : i <= j
              closes == {i \in 1..Len(toks) : toks[i].k = "rbrace" /\ i > first}
          IN IF closes = {} THEN None
             ELSE LET last == CHOOSE i \in closes : \A j \in closes : i <= j
                  IN [group |-> SubSeq(toks, first, last)]

\* the span from the first "{" to the last "}" after it, or None
BraceSpan(toks) ==
  LET opens == {i \in 1..Len(toks) : toks[i].k = "lbrace"}
  IN IF opens = {} THEN None
     ELSE LET first == CHOOSE i \in opens : \A j \in opens : i <= j
              closes == {i \in 1..Len(toks) : toks[i].k = "rbrace" /\ i > first}
          IN IF closes = {} THEN None
             ELSE LET last == CHOOSE i \in closes : \A j \in closes : j <= i
                  IN [group |-> SubSeq(toks, first, last)]

(* ---------------- json.loads ---------------- *)

\* The decoder as a pushdown automaton over the tokens.  mode is what may
\* come next, stack holds the objects that are still open (the members read
\* so far and the key whose value is awaited), val is the finished document.
Frame(items, key) == [items |-> items, key |-> key]

Decoder(mode, stack, val) == [mode |-> mode, stack |-> stack, val |-> val]

Bad == Decoder("error", <<>>, PyNone)

\* a value v has been read completely
Complete(st, v) ==
  IF st.stack = <<>> THEN Decoder("end", <<>>, v)
  ELSE Decoder("after_value",
               [st.stack EXCEPT ![Len(st.stack)] =
                  Frame(Append(@.items, <<@.key, v>>), "")],
               PyNone)

\* the innermost open object is closed
Close(st) ==
  Complete(Decoder(st.mode, SubSeq(st.stack, 1, Len(st.stack) - 1), PyNone),
           PyDict(st.stack[Len(st.stack)].items))

\* one token
Step(st, tok) ==
  IF tok.k = "ws" \/ st.mode = "error" THEN st
  ELSE IF st.mode = "value" THEN
    IF tok.k = "str" THEN Complete(st, PyStr(tok.s))
    ELSE IF tok.k = "num" THEN Complete(st, NumLit(tok.s))
    ELSE IF tok.k = "lit" THEN Complete(st, LitVal(tok.s))
    ELSE IF tok.k = "lbrace"
      THEN Decoder("first_key", Append(st.stack, Frame(<<>>, "")), PyNone)
    ELSE Bad
  ELSE IF st.mode \in {"first_key", "key"} THEN
    IF tok.k = "str"
      THEN Decoder("colon",
                   [st.stack EXCEPT ![Len(st.stack)] = Frame(@.items, tok.s)], PyNone)
    ELSE IF tok.k = "rbrace" /\ st.mode = "first_key" THEN Close(st)
    ELSE Bad
  ELSE IF st.mode = "colon" THEN
    IF tok.k = "colon" THEN Decoder("value", st.stack, PyNone) ELSE Bad
  ELSE IF st.mode = "after_value" THEN
    IF tok.k = "comma" THEN Decoder("key", st.stack, PyNone)
    ELSE IF tok.k = "rbrace" THEN Close(st)
    ELSE Bad
  ELSE Bad

RECURSIVE Decode(_, _, _)
Decode(toks, i, st) ==
  IF i > Len(toks) THEN st ELSE Decode(toks, i + 1, Step(st, toks[i]))

\* json.loads(s): [exc, val]; anything left after the value is "Extra data"
json_loads(toks) ==
  LET st == Decode(toks, 1, Decoder("value", <<>>, PyNone))
  IN IF st.mode = "end"
     THEN [exc |-> "none", val |-> st.val]
     ELSE [exc |-> "JSONDecodeError", val |-> PyNone]

\* dict.get(key, default); a key given twice keeps its last value
dict_get(obj, key, default) ==
  LET hits == {i \in 1..Len(obj.items) : obj.items[i][1] = key}
  IN IF hits = {} THEN default
     ELSE obj.items[CHOOSE i \in hits : \A j \in hits : j <= i][2]

(* ---------------- parse_json_from_text ---------------- *)

\* chartType of a response that carries no label (Python None, JSON null)
Null == "null"

\* the label taken without the membership test
LabelOfUnchecked(cs, A) ==
  IF \E l \in A \cup {"triangle"} : Chars(l) = cs
  THEN CHOOSE l \in A \cup {"triangle"} : Chars(l) = cs
  ELSE Null

\* the member of A whose characters are cs (`ct in ALLOWED`), or Null
LabelOf(cs, A) ==
  IF \E l \in A : Chars(l) = cs THEN CHOOSE l \in A : Chars(l) = cs ELSE Null

\* the body of the try block on the matched span: [exc, ret]
TryBody(span, A) ==
  LET doc == json_loads(span)
  IN IF doc.exc # "none" THEN [exc |-> doc.exc, ret |-> None]
     ELSE IF doc.val.t # "dict" THEN [exc |-> "AttributeError", ret |-> None]
     ELSE
       LET obj == doc.val
           ct == Strip(MapLower(py_str(dict_get(obj, "chartType", PyStr("")))))
           conf == py_float(dict_get(obj, "confidence", PyFloat(50)))
           has_grid == dict_get(obj, "hasGrid", PyNone)
       IN IF conf.exc # "none" THEN [exc |-> conf.exc, ret |-> None]
          ELSE IF LabelOf(ct, A) # Null
          THEN LET payload == [chartType |-> LabelOf(ct, A),
                               confidence |-> Clamp(conf.val)]
               IN [exc |-> "none",
                   ret |-> IF has_grid.t = "bool"
                           THEN [chartType |-> payload.chartType,
                                 confidence |-> payload.confidence,
                                 hasGrid |-> has_grid.b]
                           ELSE payload]
          ELSE [exc |-> "none", ret |-> None]

\* `except json.JSONDecodeError`
CaughtOnlyDecode(exc) == exc = "JSONDecodeError"

\* `except Exception`: every exception the try block can raise is one
Caught(exc) ==
  exc \in {"JSONDecodeError", "AttributeError", "TypeError", "ValueError", "OverflowError"}

\* [raised, ret]: raised is the exception that escapes, "none" if none does
parse_json_from_text(toks, A) ==
  LET m == BraceSpan(toks)
  IN IF m = None THEN [raised |-> "none", ret |-> None]
     ELSE LET b == TryBody(m.group, A)
          IN IF b.exc = "none" THEN [raised |-> "none", ret |-> b.ret]
             ELSE IF Caught(b.exc) THEN [raised |-> "none", ret |-> None]
             ELSE [raised |-> b.exc, ret |-> None]

(* ---------------- map_text_to_label ---------------- *)

Kw(t, s) == Contains(t, Chars(s))

\* "bar-horizontal" spelt the other way round
HitMisspelt(l) ==
  [chartType |-> IF l = "bar-horizontal" THEN "horizontal-bar" ELSE l,
   confidence |-> PyFloat(55)]

Hit(l) == [chartType |-> l, confidence |-> PyFloat(55)]

\* the "bar" rule tested before the "bar-horizontal" rule
map_text_to_label_bar_first(toks) ==
  LET t == MapLower(TextChars(toks))
  IN IF Kw(t, "donut") \/ Kw(t, "doughnut") THEN Hit("donut")
     ELSE IF Kw(t, "pie") THEN Hit("pie")
     ELSE IF Kw(t, "bar") THEN Hit("bar")
     ELSE IF Kw(t, "bar-horizontal") \/ (Kw(t, "horizontal") /\ Kw(t, "bar"))
       THEN Hit("bar-horizontal")
     ELSE IF Kw(t, "scatter") \/ Kw(t, "points") \/ Kw(t, "dots") THEN Hit("scatter")
     ELSE IF Kw(t, "circle") THEN Hit("circle")
     ELSE IF Kw(t, "area") THEN Hit("area")
     ELSE IF Kw(t, "line") \/ Kw(t, "time") THEN Hit("line")
     ELSE None

map_text_to_label(toks) ==
  LET t == MapLower(TextChars(toks))
  IN IF Kw(t, "donut") \/ Kw(t, "doughnut") THEN Hit("donut")
     ELSE IF Kw(t, "pie") THEN Hit("pie")
     ELSE IF Kw(t, "bar-horizontal") \/ (Kw(t, "horizontal") /\ Kw(t, "bar"))
       THEN Hit("bar-horizontal")
     ELSE IF Kw(t, "bar") THEN Hit("bar")
     ELSE IF Kw(t, "scatter") \/ Kw(t, "points") \/ Kw(t, "dots") THEN Hit("scatter")
     ELSE IF Kw(t, "circle") THEN Hit("circle")
     ELSE IF Kw(t, "area") THEN Hit("area")
     ELSE IF Kw(t, "line") \/ Kw(t, "time") THEN Hit("line")
     ELSE None

(* ---------------- JSONResponse(...).body ---------------- *)

\* str(content): Python's None, True and False instead of JSON's
SerializePyRepr(resp) ==
  <<LB, Str("chartType"), COLON,
    IF resp.chartType = Null THEN Word("None") ELSE Str(resp.chartType),
    COMMA, Str("confidence"), COLON, Num(FloatRepr(resp.confidence.f)),
    COMMA, Str("hasGrid"), COLON, IF resp.hasGrid THEN Word("True") ELSE Word("False"),
    RB>>

\* json.dumps(content, separators=(",", ":")) of a response dict
Serialize(resp) ==
  <<LB, Str("chartType"), COLON,
    IF resp.chartType = Null THEN Lit("null") ELSE Str(resp.chartType),
    COMMA, Str("confidence"), COLON, Num(FloatRepr(resp.confidence.f)),
    COMMA, Str("hasGrid"), COLON, IF resp.hasGrid THEN Lit("true") ELSE Lit("false"),
    RB>>

(* ---------------- input texts ---------------- *)

Absent == Tok("absent", "")

Member(key, val) == IF val = Absent THEN <<>> ELSE <<<<Str(key), COLON, val>>>>

RECURSIVE Join(_)
Join(ms) ==
  IF ms = <<>> THEN <<>>
  ELSE IF Len(ms) = 1 THEN Head(ms)
  ELSE Head(ms) \o <<COMMA>> \o Join(Tail(ms))

\* {"chartType":ct,"confidence":cf,"hasGrid":hg} with the absent members left out
ObjectText(ct, cf, hg) ==
  <<LB>> \o Join(Member("chartType", ct) \o Member("confidence", cf) \o Member("hasGrid", hg))
         \o <<RB>>

CtVals == {Absent, Str("PIE"), Str(" Donut "), Str("triangle"), Str("bar-horizontal"), Lit("null")}

ConfVals ==
  {Absent, Num("1.4"), Num("0.9"), Num("-0.3"), Num("1"), Num(BigIntLit), Num("1e400"),
   Lit("NaN"), Lit("null"), Lit("true"), Str("0.7"), Str("high")}

HgVals == {Absent, Lit("true"), Lit("false"), Num("1"), Str("true")}

Prefixes == {<<>>, <<Word("Here is the JSON: ")>>, <<Word("Doughnut"), WS>>}

Suffixes == {<<>>, <<WS, Word("Bar")>>}

ObjectTexts ==
  {pre \o ObjectText(ct, cf, hg) \o post :
     pre \in Prefixes, ct \in CtVals, cf \in ConfVals, hg \in HgVals, post \in Suffixes}

Fragments ==
  {<<LB>>, <<RB>>, <<WS>>,
   <<Str("chartType"), COLON, Str("PIE")>>,
   <<LB, Str("chartType"), COLON, Str("area"), RB>>,
   <<LB, Str("note"), COLON>>,
   <<Word("This looks like a horizontal bar chart with gridlines")>>,
   <<Word("I cannot determine the chart type")>>,
   <<Word("a timeline of points")>>,
   <<Word("do")>>, <<Word("nut")>>}

FreeTexts == UNION {{Flatten(fs) : fs \in [1..n -> Fragments]} : n \in 0..MaxFrags}

InputTexts == ObjectTexts \cup FreeTexts

\* the texts of the concurrent requests
ConcTexts ==
  {<<Word("This looks like a horizontal bar chart with gridlines")>>,
   <<Word("I cannot determine the chart type")>>,
   ObjectText(Str("PIE"), Num("1.4"), Lit("true")),
   ObjectText(Str("triangle"), Num("0.9"), Absent)}

(* ---------------- the requests ---------------- *)

Reqs == 1..NumReqs

Abstention == [chartType |-> Null, confidence |-> PyFloat(0), hasGrid |-> FALSE]

\* truth value of a dict or None
Truthy(d) == d # None /\ DOMAIN d # {}

\* d["hasGrid"] = False
SetHasGridFalse(d) ==
  [chartType |-> d.chartType, confidence |-> d.confidence, hasGrid |-> FALSE]

Init ==
  /\ allowed = ALLOWED
  /\ text = [r \in Reqs |-> <<>>]
  /\ pc = [r \in Reqs |-> "idle"]
  /\ parsed = [r \in Reqs |-> None]
  /\ mapped = [r \in Reqs |-> None]
  /\ response = [r \in Reqs |-> None]
  /\ trace = [r \in Reqs |-> <<>>]
  /\ nresp = [r \in Reqs |-> 0]
  /\ round = [r \in Reqs |-> 0]
  /\ prev = [r \in Reqs |-> None]

\* a new text enters the normalizer
Start(r, t, n, p) ==
  /\ text' = [text EXCEPT ![r] = t]
  /\ pc' = [pc EXCEPT ![r] = "STRICT_JSON"]
  /\ parsed' = [parsed EXCEPT ![r] = None]
  /\ mapped' = [mapped EXCEPT ![r] = None]
  /\ response' = [response EXCEPT ![r] = None]
  /\ trace' = [trace EXCEPT ![r] = <<>>]
  /\ nresp' = [nresp EXCEPT ![r] = 0]
  /\ round' = [round EXCEPT ![r] = n]
  /\ prev' = [prev EXCEPT ![r] = p]
  /\ UNCHANGED allowed

\* the model's decoded text of request r is one of the texts of T
Receive(r, T) ==
  /\ pc[r] = "idle"
  /\ \E t \in T : Start(r, t, 0, None)

\* the strict tier without its return: the keyword tier runs after a success
StrictJsonFallsThrough(r) ==
  /\ pc[r] = "STRICT_JSON"
  /\ LET p == parse_json_from_text(text[r], allowed)
     IN /\ trace' = [trace EXCEPT ![r] = Append(@, "STRICT_JSON")]
        /\ parsed' = [parsed EXCEPT ![r] = p.ret]
        /\ pc' = [pc EXCEPT ![r] = "KEYWORD_FALLBACK"]
  /\ UNCHANGED <<allowed, text, mapped, response, nresp, round, prev>>

\* parsed = parse_json_from_text(text); if parsed: ... return JSONResponse(parsed)
StrictJson(r) ==
  /\ pc[r] = "STRICT_JSON"
  /\ LET p == parse_json_from_text(text[r], allowed)
     IN /\ trace' = [trace EXCEPT ![r] = Append(@, "STRICT_JSON")]
        /\ IF p.raised # "none"
           THEN /\ pc' = [pc EXCEPT ![r] = "raised"]
                /\ UNCHANGED <<parsed, response, nresp>>
           ELSE IF Truthy(p.ret)
           THEN LET d == IF "hasGrid" \notin DOMAIN p.ret THEN SetHasGridFalse(p.ret)
                         ELSE p.ret
                IN /\ parsed' = [parsed EXCEPT ![r] = d]
                   /\ response' = [response EXCEPT ![r] = d]
                   /\ nresp' = [nresp EXCEPT ![r] = @ + 1]
                   /\ pc' = [pc EXCEPT ![r] = "done"]
           ELSE /\ parsed' = [parsed EXCEPT ![r] = p.ret]
                /\ pc' = [pc EXCEPT ![r] = "KEYWORD_FALLBACK"]
                /\ UNCHANGED <<response, nresp>>
  /\ UNCHANGED <<allowed, text, mapped, round, prev>>

\* the keyword tier removing the label it used from ALLOWED
KeywordFallbackDiscards(r) ==
  /\ pc[r] = "KEYWORD_FALLBACK"
  /\ LET m == map_text_to_label(text[r])
     IN /\ trace' = [trace EXCEPT ![r] = Append(@, "KEYWORD_FALLBACK")]
        /\ IF Truthy(m) /\ m.chartType \in allowed
           THEN /\ mapped' = [mapped EXCEPT ![r] = SetHasGridFalse(m)]
                /\ response' = [response EXCEPT ![r] = SetHasGridFalse(m)]
                /\ nresp' = [nresp EXCEPT ![r] = @ + 1]
                /\ pc' = [pc EXCEPT ![r] = "done"]
                /\ allowed' = allowed \ {m.chartType}
           ELSE /\ mapped' = [mapped EXCEPT ![r] = m]
                /\ pc' = [pc EXCEPT ![r] = "ABSTAIN"]
                /\ UNCHANGED <<response, nresp, allowed>>
  /\ UNCHANGED <<text, parsed, round, prev>>

\* mapped = map_text_to_label(text); if mapped and mapped["chartType"] in ALLOWED: ...
KeywordFallback(r) ==
  /\ pc[r] = "KEYWORD_FALLBACK"
  /\ LET m == map_text_to_label(text[r])
     IN /\ trace' = [trace EXCEPT ![r] = Append(@, "KEYWORD_FALLBACK")]
        /\ IF Truthy(m) /\ m.chartType \in allowed
           THEN /\ mapped' = [mapped EXCEPT ![r] = SetHasGridFalse(m)]
                /\ response' = [response EXCEPT ![r] = SetHasGridFalse(m)]
                /\ nresp' = [nresp EXCEPT ![r] = @ + 1]
                /\ pc' = [pc EXCEPT ![r] = "done"]
           ELSE /\ mapped' = [mapped EXCEPT ![r] = m]
                /\ pc' = [pc EXCEPT ![r] = "ABSTAIN"]
                /\ UNCHANGED <<response, nresp>>
  /\ UNCHANGED <<allowed, text, parsed, round, prev>>

\* return JSONResponse({"chartType": None, "confidence": 0.0, "hasGrid": False})
Abstain(r) ==
  /\ pc[r] = "ABSTAIN"
  /\ trace' = [trace EXCEPT ![r] = Append(@, "ABSTAIN")]
  /\ response' = [response EXCEPT ![r] = Abstention]
  /\ nresp' = [nresp EXCEPT ![r] = @ + 1]
  /\ pc' = [pc EXCEPT ![r] = "done"]
  /\ UNCHANGED <<allowed, text, parsed, mapped, round, prev>>

\* the body of the response is the text of the next run
Reembed(r) ==
  /\ pc[r] = "done"
  /\ round[r] < MaxRounds
  /\ response[r].confidence.t = "float"
  /\ Start(r, Serialize(response[r]), round[r] + 1, response[r])

\* the response has been sent and the request is over
Finish(r) ==
  /\ pc[r] = "done"
  /\ text' = [text EXCEPT ![r] = <<>>]
  /\ pc' = [pc EXCEPT ![r] = "idle"]
  /\ parsed' = [parsed EXCEPT ![r] = None]
  /\ mapped' = [mapped EXCEPT ![r] = None]
  /\ response' = [response EXCEPT ![r] = None]
  /\ trace' = [trace EXCEPT ![r] = <<>>]
  /\ nresp' = [nresp EXCEPT ![r] = 0]
  /\ round' = [round EXCEPT ![r] = 0]
  /\ prev' = [prev EXCEPT ![r] = None]
  /\ UNCHANGED allowed

Next ==
  \E r \in {1} :
    \/ Receive(r, InputTexts)
    \/ StrictJson(r)
    \/ KeywordFallback(r)
    \/ Abstain(r)
    \/ Reembed(r)
    \/ Finish(r)

Spec == Init /\ [][Next]_vars

NextConc ==
  \E r \in Reqs :
    \/ Receive(r, ConcTexts)
    \/ StrictJson(r)
    \/ KeywordFallback(r)
    \/ Abstain(r)
    \/ Reembed(r)
    \/ Finish(r)

SpecConc == Init /\ [][NextConc]_vars

TypeOK ==
  /\ allowed \subseteq ALLOWED
  /\ \A r \in Reqs :
       pc[r] \in {"idle", "STRICT_JSON", "KEYWORD_FALLBACK", "ABSTAIN", "done", "raised"}

(* ---------------- vocabulary of the properties ---------------- *)

TierOrder == <<"STRICT_JSON", "KEYWORD_FALLBACK", "ABSTAIN">>

Ran(r, tier) == \E i \in 1..Len(trace[r]) : trace[r][i] = tier

HasTok(r, tok) == \E i \in 1..Len(text[r]) : text[r][i] = tok

\* the keyword rules in the order the specification lists them; a rule
\* matches when every keyword of one of its alternatives occurs
Rules ==
  <<[l |-> "donut", alts |-> {{"donut"}, {"doughnut"}}],
    [l |-> "pie", alts |-> {{"pie"}}],
    [l |-> "bar-horizontal", alts |-> {{"bar-horizontal"}, {"horizontal", "bar"}}],
    [l |-> "bar", alts |-> {{"bar"}}],
    [l |-> "scatter", alts |-> {{"scatter"}, {"points"}, {"dots"}}],
    [l |-> "circle", alts |-> {{"circle"}}],
    [l |-> "area", alts |-> {{"area"}}],
    [l |-> "line", alts |-> {{"line"}, {"time"}}]>>

RuleMatches(i, t) == \E alt \in Rules[i].alts : \A kw \in alt : Contains(t, Chars(kw))

\* the rules that match the lower-cased text
Matching(toks) ==
  LET t == MapLower(TextChars(toks)) IN {i \in 1..Len(Rules) : RuleMatches(i, t)}

NoKeyword(toks) == Matching(toks) = {}

FirstRuleLabel(toks) ==
  Rules[CHOOSE i \in Matching(toks) : \A j \in Matching(toks) : i <= j].l

Braces(toks, k) == {i \in 1..Len(toks) : toks[i].k = k}

\* the text has a "{" with a "}" somewhere after it
HasSpan(toks) == \E i \in Braces(toks, "lbrace"), j \in Braces(toks, "rbrace") : i < j

\* the tokens from the first "{" to the last "}"
FirstToLast(toks) ==
  SubSeq(toks,
         CHOOSE i \in Braces(toks, "lbrace") : \A j \in Braces(toks, "lbrace") : i <= j,
         CHOOSE i \in Braces(toks, "rbrace") : \A j \in Braces(toks, "rbrace") : j <= i)

\* that span parses as a JSON object
SpanObject(toks) ==
  /\ HasSpan(toks)
  /\ json_loads(FirstToLast(toks)).exc = "none"
  /\ json_loads(FirstToLast(toks)).val.t = "dict"

TheObject(toks) == json_loads(FirstToLast(toks)).val

\* chartType of the object, lower-cased and trimmed
GivenLabel(toks) ==
  Strip(MapLower(py_str(dict_get(TheObject(toks), "chartType", PyStr("")))))

LabelAllowed(toks) == \E l \in ALLOWED : Chars(l) = GivenLabel(toks)

HasKey(toks, key) ==
  \E i \in 1..Len(TheObject(toks).items) : TheObject(toks).items[i][1] = key

GivenConf(toks) == dict_get(TheObject(toks), "confidence", PyNone)

GivenGrid(toks) == dict_get(TheObject(toks), "hasGrid", PyNone)

\* the value of a JSON number, clamped to [0, 1], in hundredths
ClampedValue(v) ==
  CASE v.t = "float" -> IF v.f < 0 THEN 0 ELSE IF v.f > 100 THEN 100 ELSE v.f
    [] v.t = "int" -> IF v.n < 0 THEN 0 ELSE IF v.n >= 1 THEN 100 ELSE 0
    [] v.t \in {"bigint", "inf"} -> 100
    [] v.t = "ninf" -> 0

\* the result the strict tier is to give for the object of the text
StrictResult(toks) ==
  [chartType |-> CHOOSE l \in ALLOWED : Chars(l) = GivenLabel(toks),
   confidence |-> PyFloat(IF HasKey(toks, "confidence")
                          THEN ClampedValue(GivenConf(toks)) ELSE 50),
   hasGrid |-> IF GivenGrid(toks).t = "bool" THEN GivenGrid(toks).b ELSE FALSE]

PieExample == ObjectText(Str("PIE"), Num("1.4"), Lit("true"))

TriangleExample == ObjectText(Str("triangle"), Num("0.9"), Absent)

HorizontalBarExample == <<Word("This looks like a horizontal bar chart with gridlines")>>

AreaObject == <<LB, Str("chartType"), COLON, Str("area"), RB>>

(* ---------------- C1 ---------------- *)

\* C1: every response is a record with a boolean hasGrid, a confidence that
\* is a number in [0,1], and a chartType that is null or one of the 8 labels.
ResponseWellFormed ==
  \A r \in Reqs :
    pc[r] = "done" =>
      /\ response[r] # None
      /\ DOMAIN response[r] = {"chartType", "confidence", "hasGrid"}
      /\ response[r].hasGrid \in BOOLEAN
      /\ response[r].confidence.t = "float"
      /\ response[r].confidence.f >= 0
      /\ response[r].confidence.f <= 100
      /\ response[r].chartType \in ALLOWED \cup {Null}

\* a strict-tier response whose confidence was given as NaN and whose hasGrid
\* was not given
ResponseWellFormedWitness ==
  \E r \in Reqs :
    /\ pc[r] = "done"
    /\ trace[r] = <<"STRICT_JSON">>
    /\ HasTok(r, Lit("NaN"))
    /\ ~HasTok(r, Str("hasGrid"))

(* ---------------- C2 ---------------- *)

\* the try block of parse_json_from_text fails on this text
FailsInside(toks) ==
  \/ ~HasSpan(toks)
  \/ ~SpanObject(toks)
  \/ (HasKey(toks, "confidence") /\ py_float(GivenConf(toks)).exc # "none")

\* C2: no exception leaves the normalizer; a failure inside
\* parse_json_from_text gives the null candidate and the keyword tier runs.
NoExceptionSurfaces ==
  \A r \in Reqs :
    /\ pc[r] # "raised"
    /\ (Ran(r, "STRICT_JSON") /\ FailsInside(text[r])) =>
         /\ parsed[r] = None
         /\ pc[r] = "KEYWORD_FALLBACK" \/ Ran(r, "KEYWORD_FALLBACK")

\* the keyword tier has run on an object whose confidence is null
NoExceptionSurfacesWitness ==
  \E r \in Reqs :
    /\ Ran(r, "KEYWORD_FALLBACK")
    /\ SpanObject(text[r])
    /\ HasKey(text[r], "confidence")
    /\ GivenConf(text[r]) = PyNone

(* ---------------- C3 ---------------- *)

\* C3: the tiers run in the order STRICT_JSON, KEYWORD_FALLBACK, ABSTAIN, each
\* at most once; a later tier runs only when the earlier ones gave nothing;
\* the tier that succeeds ends the run with exactly one response.
TiersInFixedOrder ==
  \A r \in Reqs :
    /\ Len(trace[r]) <= 3
    /\ trace[r] = SubSeq(TierOrder, 1, Len(trace[r]))
    /\ nresp[r] <= 1
    /\ pc[r] = "STRICT_JSON" => trace[r] = <<>>
    /\ pc[r] = "KEYWORD_FALLBACK" => (trace[r] = <<"STRICT_JSON">> /\ parsed[r] = None)
    /\ Ran(r, "KEYWORD_FALLBACK") => parsed[r] = None
    /\ pc[r] = "ABSTAIN" => (Len(trace[r]) = 2 /\ parsed[r] = None /\ mapped[r] = None)
    /\ Ran(r, "ABSTAIN") => (parsed[r] = None /\ mapped[r] = None)
    /\ (nresp[r] = 1) = (pc[r] = "done")
    /\ pc[r] = "done" =>
         /\ trace[r] # <<>>
         /\ Len(trace[r]) = 1 => response[r] = parsed[r]
         /\ Len(trace[r]) = 2 => response[r] = mapped[r]
         /\ Len(trace[r]) = 3 => response[r] = Abstention

\* a run that went through all three tiers
TiersInFixedOrderWitness ==
  \E r \in Reqs : pc[r] = "done" /\ trace[r] = TierOrder /\ nresp[r] = 1

(* ---------------- C4 ---------------- *)

\* confidence is a JSON number (NaN is not one)
NumericConf(toks) == GivenConf(toks).t \in {"int", "bigint", "float", "inf", "ninf"}

\* confidence is a JSON number that float() converts
ConvertibleConf(toks) == GivenConf(toks).t \in {"int", "float", "inf", "ninf"}

\* C4: an object with an allowed chartType and a confidence that is
\* absent or numeric gives the lower-cased label, the clamped confidence (0.5
\* when absent) and the boolean hasGrid (false when absent or not a boolean).
StrictResultForNumeric ==
  \A r \in Reqs :
    (/\ pc[r] = "done"
     /\ SpanObject(text[r])
     /\ LabelAllowed(text[r])
     /\ ~HasKey(text[r], "confidence") \/ NumericConf(text[r]))
    => response[r] = StrictResult(text[r])

\* C4 amended: the same result when the confidence is absent or a number that
\* float() converts; an integer beyond the float range makes float() raise
\* OverflowError and the strict tier yields no candidate.
StrictResultForConvertible ==
  \A r \in Reqs :
    /\ (/\ pc[r] = "done"
        /\ SpanObject(text[r])
        /\ LabelAllowed(text[r])
        /\ ~HasKey(text[r], "confidence") \/ ConvertibleConf(text[r]))
       => (response[r] = StrictResult(text[r]) /\ trace[r] = <<"STRICT_JSON">>)
    /\ (/\ Ran(r, "STRICT_JSON")
        /\ SpanObject(text[r])
        /\ HasKey(text[r], "confidence")
        /\ GivenConf(text[r]).t = "bigint")
       => parsed[r] = None
    /\ (pc[r] = "done" /\ text[r] = PieExample) =>
         response[r] = [chartType |-> "pie", confidence |-> PyFloat(100), hasGrid |-> TRUE]

\* the specification's example, answered
StrictResultWitness ==
  \E r \in Reqs :
    /\ pc[r] = "done"
    /\ text[r] = PieExample
    /\ response[r] = [chartType |-> "pie", confidence |-> PyFloat(100), hasGrid |-> TRUE]

(* ---------------- C5 ---------------- *)

\* C5: a response of the keyword tier carries the label of the first rule, in
\* the listed order, that matches the lower-cased text, confidence 0.55 and
\* hasGrid false.
KeywordFirstMatchWins ==
  \A r \in Reqs :
    /\ (Ran(r, "KEYWORD_FALLBACK") /\ ~NoKeyword(text[r])) =>
         /\ pc[r] = "done"
         /\ trace[r] = <<"STRICT_JSON", "KEYWORD_FALLBACK">>
         /\ response[r] = [chartType |-> FirstRuleLabel(text[r]),
                           confidence |-> PyFloat(55), hasGrid |-> FALSE]
    /\ (pc[r] = "done" /\ text[r] = HorizontalBarExample) =>
         response[r] = [chartType |-> "bar-horizontal",
                        confidence |-> PyFloat(55), hasGrid |-> FALSE]

\* the example: rules 3, 4 and 8 all match and rule 3 decides
KeywordFirstMatchWinsWitness ==
  \E r \in Reqs :
    /\ pc[r] = "done"
    /\ text[r] = HorizontalBarExample
    /\ Matching(text[r]) = {3, 4, 8}
    /\ response[r].chartType = "bar-horizontal"

(* ---------------- C6 ---------------- *)

\* C6: an object whose chartType is not an allowed label is a failure of the
\* strict tier: the keyword tier decides over the full text, nothing of the
\* object reaches the result, and without a keyword the result is the
\* abstention.
InvalidLabelFallsThrough ==
  \A r \in Reqs :
    /\ (/\ Ran(r, "STRICT_JSON")
        /\ SpanObject(text[r])
        /\ ~LabelAllowed(text[r]))
       => /\ parsed[r] = None
          /\ pc[r] = "done" =>
               /\ Ran(r, "KEYWORD_FALLBACK")
               /\ response[r].hasGrid = FALSE
               /\ IF NoKeyword(text[r])
                  THEN response[r] = Abstention
                  ELSE response[r] = [chartType |-> FirstRuleLabel(text[r]),
                                      confidence |-> PyFloat(55), hasGrid |-> FALSE]
    /\ (pc[r] = "done" /\ text[r] = TriangleExample) => response[r] = Abstention

\* the example, answered by the abstention
InvalidLabelFallsThroughWitness ==
  \E r \in Reqs :
    /\ pc[r] = "done"
    /\ text[r] = TriangleExample
    /\ trace[r] = TierOrder
    /\ response[r] = Abstention

(* ---------------- C7 ---------------- *)

\* C7: the normalizer run on the serialization of a response returns that
\* response.
Idempotent ==
  \A r \in Reqs : (pc[r] = "done" /\ round[r] > 0) => response[r] = prev[r]

\* the abstention, serialized and normalized again
IdempotentWitness ==
  \E r \in Reqs :
    /\ pc[r] = "done"
    /\ round[r] > 0
    /\ prev[r] = Abstention
    /\ text[r] = Serialize(Abstention)
    /\ response[r] = Abstention

(* ---------------- C8 ---------------- *)

HasAreaObject(toks) ==
  \E i \in 1..Len(toks) :
    i + Len(AreaObject) - 1 <= Len(toks) /\ SubSeq(toks, i, i + Len(AreaObject) - 1) = AreaObject

\* C9: when the span from the first "{" to the last "}" is not valid JSON the
\* strict tier yields nothing, also when a well-formed object with an allowed
\* chartType lies inside, and the keyword tier decides.
GreedySpanOnly ==
  \A r \in Reqs :
    (/\ Ran(r, "STRICT_JSON")
     /\ HasSpan(text[r])
     /\ json_loads(FirstToLast(text[r])).exc # "none")
    => /\ parsed[r] = None
       /\ pc[r] = "done" =>
            /\ Ran(r, "KEYWORD_FALLBACK")
            /\ IF NoKeyword(text[r])
               THEN response[r] = Abstention
               ELSE response[r] = [chartType |-> FirstRuleLabel(text[r]),
                                   confidence |-> PyFloat(55), hasGrid |-> FALSE]

\* two objects one after the other
GreedySpanOnlyWitness ==
  \E r \in Reqs :
    /\ pc[r] = "done"
    /\ text[r] = AreaObject \o AreaObject
    /\ HasAreaObject(text[r])
    /\ parsed[r] = None
    /\ response[r] = [chartType |-> "area", confidence |-> PyFloat(55), hasGrid |-> FALSE]

(* ---------------- C10 ---------------- *)

\* C10: the abstention is the response exactly when the strict tier gave no
\* candidate and the text has no keyword; a keyword label is always allowed,
\* so a keyword match never abstains; a null chartType comes with confidence
\* 0.0 and hasGrid false.
AbstainExactly ==
  \A r \in Reqs :
    /\ pc[r] = "done" =>
         /\ (response[r] = Abstention) = (parsed[r] = None /\ NoKeyword(text[r]))
         /\ response[r].chartType = Null => response[r] = Abstention
    /\ mapped[r] # None => mapped[r].chartType \in ALLOWED
    /\ Ran(r, "ABSTAIN") => NoKeyword(text[r])
    /\ pc[r] = "ABSTAIN" => NoKeyword(text[r])

\* an abstention for a text that has an object in it
AbstainExactlyWitness ==
  \E r \in Reqs :
    /\ pc[r] = "done"
    /\ response[r] = Abstention
    /\ SpanObject(text[r])
    /\ NoKeyword(text[r])
====
